---- MODULE Spec2Model ----
(***************************************************************************)
(* PatternSimulator of graphix/simulator.py: the MBQC pattern interpreter. *)
(*                                                                         *)
(* The state vector is kept exactly.  A vector is a record                 *)
(*     [amp |-> <<a_1, ..., a_(2^k)>>, den |-> d]                          *)
(* that stands for the complex vector amp / sqrt(den); every a_i is a      *)
(* Gaussian integer <<re, im>>.  Bit q of (i - 1) is the value of qubit q, *)
(* the little-endian order of qiskit.  den = 0 stands for the vector of    *)
(* NaN that numpy produces from 0/0.  Angles are multiples of pi/2, so     *)
(* that cos and sin are integers and every operator of the program maps    *)
(* Gaussian integers to Gaussian integers.                                 *)
(***************************************************************************)
EXTENDS Integers, Sequences, FiniteSets, TLC

VARIABLES pattern, pattern_results, pattern_output, sv, node_index, results, pc, ip, runs, calls, last, executed, hist

vars == <<pattern, pattern_results, pattern_output, sv, node_index, results, pc, ip, runs, calls, last, executed, hist>>

-----------------------------------------------------------------------------
(* Bounds *)

\* the longest command sequence of a pattern
MaxSeq == 2

\* how often run() is called on one simulator
MaxRuns == 2

\* how many direct calls are made on one simulator
MaxCalls == 3

\* the longest node_index that the direct calls build
MaxIndex == 3

\* the node identifiers of the patterns, and those of the direct calls
Nodes == 0 .. 1

CallNodes == 0 .. 2

-----------------------------------------------------------------------------
(* Complex numbers with integer parts *)

CZero == <<0, 0>>

COne == <<1, 0>>

CAdd(a, b) == <<a[1] + b[1], a[2] + b[2]>>

CMul(a, b) == <<a[1] * b[1] - a[2] * b[2], a[1] * b[2] + a[2] * b[1]>>

CConj(a) == <<a[1], -a[2]>>

CInt(n) == <<n, 0>>

CAbs2(a) == a[1] * a[1] + a[2] * a[2]

Abs(n) == IF n < 0 THEN -n ELSE n

RECURSIVE Pow2(_)
Pow2(n) == IF n = 0 THEN 1 ELSE 2 * Pow2(n - 1)

RECURSIVE Log2(_)
Log2(n) == IF n <= 1 THEN 0 ELSE 1 + Log2(n \div 2)

RECURSIVE GCD(_, _)
GCD(a, b) == IF b = 0 THEN a ELSE GCD(b, a % b)

RECURSIVE SumSeq(_)
SumSeq(s) == IF s = <<>> THEN 0 ELSE Head(s) + SumSeq(Tail(s))

Bit(b, q) == (b \div Pow2(q)) % 2

SetBit(b, q, v) == b + (v - Bit(b, q)) * Pow2(q)

\* the index b with a bit of value v put in at axis q
InsertBit(b, q, v) == (b % Pow2(q)) + v * Pow2(q) + (b \div Pow2(q)) * Pow2(q + 1)

-----------------------------------------------------------------------------
(* The algebra service (qiskit.quantum_info) as the simulator uses it *)

\* qi.Statevector([]) of the constructor
EmptyVector == [amp |-> <<>>, den |-> 1]

\* qi.Statevector([1 for i in range(2**n)])
Ones(n) == [amp |-> [i \in 1 .. Pow2(n) |-> COne], den |-> 1]

NormSq(amp) == SumSeq([i \in 1 .. Len(amp) |-> CAbs2(amp[i])])

IsNaN(v) == v.den = 0

\* Statevector.trace() is the squared norm: NormSq(amp) / den
TraceIsOne(v) == v.den # 0 /\ NormSq(v.amp) = v.den

\* sv / sv.trace()**0.5 ; 0/0 and NaN/NaN are NaN
DivideBySqrtTrace(v) ==
    [amp |-> v.amp, den |-> IF v.den = 0 THEN 0 ELSE NormSq(v.amp)]

\* Statevector.expand(other) = other (x) self: the axes of self come first
Expand(v, other) ==
    LET d == Len(v.amp)
    IN  [amp |-> [i \in 1 .. d * Len(other.amp) |->
                    CMul(v.amp[((i - 1) % d) + 1], other.amp[((i - 1) \div d) + 1])],
         den |-> v.den * other.den]

\* Statevector.evolve(op, [loc]) for a 2x2 matrix op = mat / scale
Evolve1(v, mat, scale, loc) ==
    [amp |-> [i \in 1 .. Len(v.amp) |->
                LET b == i - 1
                    r == Bit(b, loc)
                IN  CAdd(CMul(mat[r + 1][1], v.amp[SetBit(b, loc, 0) + 1]),
                         CMul(mat[r + 1][2], v.amp[SetBit(b, loc, 1) + 1]))],
     den |-> v.den * scale * scale]

\* Statevector.evolve(op, [q0, q1]) for a 4x4 matrix: q0 is the low bit of the
\* operator's row and column index, q1 the high bit
Evolve2(v, mat, q0, q1) ==
    [amp |-> [i \in 1 .. Len(v.amp) |->
                LET b == i - 1
                    r == Bit(b, q0) + 2 * Bit(b, q1)
                    src(c) == SetBit(SetBit(b, q0, c % 2), q1, c \div 2)
                IN  CAdd(CAdd(CMul(mat[r + 1][1], v.amp[src(0) + 1]),
                              CMul(mat[r + 1][2], v.amp[src(1) + 1])),
                         CAdd(CMul(mat[r + 1][3], v.amp[src(2) + 1]),
                              CMul(mat[r + 1][4], v.amp[src(3) + 1])))],
     den |-> v.den]

\* Ops.cz, the controlled-phase operator diag(1, 1, 1, -1)
OpsCZ ==
    <<<<COne, CZero, CZero, CZero>>, <<CZero, COne, CZero, CZero>>,
      <<CZero, CZero, COne, CZero>>, <<CZero, CZero, CZero, CInt(-1)>>>>

\* the controlled-X operator, X on the high bit when the low bit is 1
OpsCX ==
    <<<<COne, CZero, CZero, CZero>>, <<CZero, CZero, CZero, COne>>,
      <<CZero, CZero, COne, CZero>>, <<CZero, COne, CZero, CZero>>>>

\* Statevector.evolve(Ops.cz, [control, target])
EvolveCZ(v, control, target) == Evolve2(v, OpsCZ, control, target)

\* the two slices of the vector at axis loc
Slice(amp, loc, r) ==
    [i \in 1 .. (Len(amp) \div 2) |-> amp[InsertBit(i - 1, loc, r) + 1]]

\* qi.partial_trace(sv, [loc]) is a pure state iff the two slices are parallel
IsProduct(amp, loc) ==
    LET A0 == Slice(amp, loc, 0)
        A1 == Slice(amp, loc, 1)
    IN  \A i, j \in 1 .. Len(A0) : CMul(A0[i], A1[j]) = CMul(A0[j], A1[i])

\* the unit eigenvector as LAPACK returns it: norm 1, the (first) component of
\* largest modulus real and positive
UnitVector(phi) ==
    LET k == CHOOSE i \in 1 .. Len(phi) :
                /\ \A j \in 1 .. Len(phi) : CAbs2(phi[j]) <= CAbs2(phi[i])
                /\ \A j \in 1 .. (i - 1) : CAbs2(phi[j]) < CAbs2(phi[i])
        rot == [i \in 1 .. Len(phi) |-> CMul(phi[i], CConj(phi[k]))]
        parts == [i \in 1 .. 2 * Len(phi) |->
                    IF i <= Len(phi) THEN Abs(rot[i][1]) ELSE Abs(rot[i - Len(phi)][2])]
        RECURSIVE G(_)
        G(n) == IF n = 0 THEN 0 ELSE GCD(G(n - 1), parts[n])
        g == G(2 * Len(phi))
        red == [i \in 1 .. Len(phi) |-> <<rot[i][1] \div g, rot[i][2] \div g>>]
    IN  [amp |-> red, den |-> NormSq(red)]

IsZero(amp) == \A i \in 1 .. Len(amp) : amp[i] = CZero

\* qi.partial_trace(sv, [loc]).to_statevector() succeeds
CanTraceOut(v, loc) == ~IsNaN(v) /\ ~IsZero(v.amp) /\ IsProduct(v.amp, loc)

TraceOut(v, loc) ==
    LET A0 == Slice(v.amp, loc, 0)
        A1 == Slice(v.amp, loc, 1)
    IN  UnitVector(IF IsZero(A0) THEN A1 ELSE A0)

-----------------------------------------------------------------------------
(* Python lists and dicts *)

\* an assignment that binds a copy of the dict, not the dict itself
ResultsCopied == FALSE

\* list.index(v): the first position (from 0) of v, -1 when list.index raises
IndexOf(list, v) ==
    IF \E i \in 1 .. Len(list) : list[i] = v
    THEN (CHOOSE i \in 1 .. Len(list) :
             list[i] = v /\ \A j \in 1 .. (i - 1) : list[j] # v) - 1
    ELSE -1

\* a remove that drops the last entry, whatever v is
Remove_pop(list, v) == SubSeq(list, 1, Len(list) - 1)

\* list.remove(v): the list without the first occurrence of v
Remove(list, v) ==
    LET p == IndexOf(list, v) + 1
    IN  [i \in 1 .. (Len(list) - 1) |-> IF i < p THEN list[i] ELSE list[i + 1]]

\* [i for i in range(n)]
Range(n) == [i \in 1 .. n |-> i - 1]

\* d[k] = v
DictSet(d, k, v) == [x \in (DOMAIN d) \cup {k} |-> IF x = k THEN v ELSE d[x]]

HasKeys(d, keys) == \A i \in 1 .. Len(keys) : keys[i] \in DOMAIN d

\* np.sum([results[j] for j in domain])
Signal(d, domain) == SumSeq([i \in 1 .. Len(domain) |-> d[domain[i]]])

-----------------------------------------------------------------------------
(* graphix.ops and graphix.clifford *)

Mat(a, b, c, d) == <<<<a, b>>, <<c, d>>>>

MatAddScaled(m, n, s) ==
    [r \in 1 .. 2 |-> [c \in 1 .. 2 |-> CAdd(m[r][c], CMul(CInt(s), n[r][c]))]]

\* CLIFFORD[0..3]: identity, X, Y, Z
CLIFFORD ==
    [i \in 0 .. 3 |->
        CASE i = 0 -> Mat(COne, CZero, CZero, COne)
          [] i = 1 -> Mat(CZero, COne, COne, CZero)
          [] i = 2 -> Mat(CZero, <<0, -1>>, <<0, 1>>, CZero)
          [] i = 3 -> Mat(COne, CZero, CZero, CInt(-1))]

\* CLIFFORD_MEASURE[vop][i] = (axis, sign); the interpreter only uses vop = 0
CLIFFORD_MEASURE == [vop \in {0} |-> <<<<0, 0>>, <<1, 0>>, <<2, 0>>>>]

OpsX == CLIFFORD[1]

OpsZ == CLIFFORD[3]

-----------------------------------------------------------------------------
(* meas_op *)

PLANES == {"XY", "YZ", "ZX"}

\* np.cos and np.sin of q * pi/2
Cos(q) == CASE q % 4 = 0 -> 1 [] q % 4 = 1 -> 0 [] q % 4 = 2 -> -1 [] q % 4 = 3 -> 0

Sin(q) == CASE q % 4 = 0 -> 0 [] q % 4 = 1 -> 1 [] q % 4 = 2 -> 0 [] q % 4 = 3 -> -1

\* the three assertions of meas_op
meas_op_asserts(vop, plane, choice) ==
    vop \in 0 .. 23 /\ choice \in {0, 1} /\ plane \in PLANES

\* 2 * op_mat: the angle is q * pi/2
meas_op(q, vop, plane, choice) ==
    LET vec == CASE plane = "XY" -> <<Cos(q), Sin(q), 0>>
                 [] plane = "YZ" -> <<0, Cos(q), Sin(q)>>
                 [] plane = "ZX" -> <<Sin(q), 0, Sin(q)>>
        term(i) == LET cm == CLIFFORD_MEASURE[vop][i + 1]
                       sgn == IF (choice + cm[2]) % 2 = 0 THEN 1 ELSE -1
                   IN  sgn * vec[cm[1] + 1]
    IN  MatAddScaled(MatAddScaled(MatAddScaled(CLIFFORD[0],
            CLIFFORD[1], term(0)), CLIFFORD[2], term(1)), CLIFFORD[3], term(2))

-----------------------------------------------------------------------------
(* The methods of PatternSimulator, as functions of the simulator's fields. *)
(* Each returns the fields after the call and the exception it raised      *)
(* ("" when it returned).  executed is the list of the commands that the   *)
(* loop of run() has handed to a method in the current run; hist keeps    *)
(* the outcomes sampled in the current run, how the first run ended, and   *)
(* the node that the qubit at each axis was created for, and the calls of  *)
(* meas_op made in the current run.                                        *)

Self == [sv |-> sv, node_index |-> node_index, results |-> results]

Returned(s) == [sv |-> s.sv, node_index |-> s.node_index, results |-> s.results, exc |-> ""]

Raised(s, e) == [sv |-> s.sv, node_index |-> s.node_index, results |-> s.results, exc |-> e]

\* len(self.sv.dims())
qubit_dim(v) == Log2(Len(v.amp))

normalize_state(v) == DivideBySqrtTrace(v)

initialize_statevector(self, input_nodes) ==
    LET n == Len(input_nodes)
    IN  Returned([self EXCEPT !.sv = normalize_state(Ones(n)),
                              !.node_index = self.node_index \o Range(n)])

set_state(self, input_nodes, statevector) ==
    IF qubit_dim(statevector) # Len(input_nodes)
    THEN Raised(self, "AssertionError")
    ELSE Returned([self EXCEPT !.sv = statevector,
                               !.node_index = self.node_index \o Range(qubit_dim(statevector))])

\* add_nodes that expands by the vector of ones as it is, not normalised
add_nodes_unnormalised(self, nodes) ==
    LET cur == IF Len(self.sv.amp) = 0 THEN Ones(0) ELSE self.sv
    IN  Returned([self EXCEPT !.sv = Expand(cur, Ones(Len(nodes))),
                              !.node_index = self.node_index \o nodes])

add_nodes(self, nodes) ==
    LET cur == IF Len(self.sv.amp) = 0 THEN Ones(0) ELSE self.sv
        sv_to_add == DivideBySqrtTrace(Ones(Len(nodes)))
    IN  Returned([self EXCEPT !.sv = Expand(cur, sv_to_add),
                              !.node_index = self.node_index \o nodes])

\* entangle_nodes that applies the controlled-X operator
entangle_nodes_cx(self, edge) ==
    LET target == IndexOf(self.node_index, edge[1])
        control == IndexOf(self.node_index, edge[2])
    IN  IF target < 0 \/ control < 0 THEN Raised(self, "ValueError")
        ELSE IF target >= qubit_dim(self.sv) \/ control >= qubit_dim(self.sv)
        THEN Raised(self, "QiskitError")
        ELSE Returned([self EXCEPT !.sv = Evolve2(self.sv, OpsCX, control, target)])

entangle_nodes(self, edge) ==
    LET target == IndexOf(self.node_index, edge[1])
        control == IndexOf(self.node_index, edge[2])
    IN  IF target < 0 \/ control < 0 THEN Raised(self, "ValueError")
        ELSE IF target >= qubit_dim(self.sv) \/ control >= qubit_dim(self.sv)
        THEN Raised(self, "QiskitError")
        ELSE Returned([self EXCEPT !.sv = EvolveCZ(self.sv, control, target)])

\* the arguments of meas_op, with the parity of t_signal in place of the sum
meas_op_args_parity(res, cmd, result) ==
    LET s_signal == Signal(res, cmd[5])
        t_signal == Signal(res, cmd[6])
    IN  [angle |-> cmd[4] * (IF s_signal % 2 = 0 THEN 1 ELSE -1) + 2 * (t_signal % 2),
         vop |-> 0, plane |-> cmd[3], choice |-> result]

\* the arguments that measure hands to meas_op; res is the result store after
\* the sampled outcome was stored in it, and the angle is in units of pi/2
meas_op_args(res, cmd, result) ==
    LET s_signal == Signal(res, cmd[5])
        t_signal == Signal(res, cmd[6])
    IN  [angle |-> cmd[4] * (IF s_signal % 2 = 0 THEN 1 ELSE -1) + 2 * t_signal,
         vop |-> 0, plane |-> cmd[3], choice |-> result]

\* cmd = <<"M", node, plane, angle, s_domain, t_domain>>; result is the sample
measure(self, cmd, result) ==
    LET s1 == [self EXCEPT !.results = DictSet(self.results, cmd[2], result)]
        args == meas_op_args(s1.results, cmd, result)
        loc == IndexOf(s1.node_index, cmd[2])
        s2 == [s1 EXCEPT !.sv = normalize_state(
                  Evolve1(s1.sv, meas_op(args.angle, args.vop, args.plane, args.choice), 2, loc))]
    IN  IF ~HasKeys(s1.results, cmd[5]) \/ ~HasKeys(s1.results, cmd[6])
        THEN Raised(s1, "KeyError")
        ELSE IF ~meas_op_asserts(args.vop, args.plane, args.choice) THEN Raised(s1, "AssertionError")
        ELSE IF loc < 0 THEN Raised(s1, "ValueError")
        ELSE IF loc >= qubit_dim(s1.sv) THEN Raised(s1, "QiskitError")
        ELSE IF ~CanTraceOut(s2.sv, loc) THEN Raised(s2, "QiskitError")
        ELSE Returned([s2 EXCEPT !.sv = TraceOut(s2.sv, loc),
                                 !.node_index = Remove(s2.node_index, cmd[2])])

\* correct_byproduct that tests the sum of the domain, not its parity
correct_byproduct_no_mod(self, cmd) ==
    LET loc == IndexOf(self.node_index, cmd[2])
        op == IF cmd[1] = "X" THEN OpsX ELSE OpsZ
    IN  IF ~HasKeys(self.results, cmd[3]) THEN Raised(self, "KeyError")
        ELSE IF Signal(self.results, cmd[3]) >= 1
        THEN IF loc < 0 THEN Raised(self, "ValueError")
             ELSE IF loc >= qubit_dim(self.sv) THEN Raised(self, "QiskitError")
             ELSE Returned([self EXCEPT !.sv = Evolve1(self.sv, op, 1, loc)])
        ELSE Returned(self)

\* correct_byproduct that looks the node up before it tests the parity
correct_byproduct_lookup_first(self, cmd) ==
    LET loc == IndexOf(self.node_index, cmd[2])
        op == IF cmd[1] = "X" THEN OpsX ELSE OpsZ
    IN  IF loc < 0 THEN Raised(self, "ValueError")
        ELSE IF ~HasKeys(self.results, cmd[3]) THEN Raised(self, "KeyError")
        ELSE IF Signal(self.results, cmd[3]) % 2 = 1
        THEN IF loc >= qubit_dim(self.sv) THEN Raised(self, "QiskitError")
             ELSE Returned([self EXCEPT !.sv = Evolve1(self.sv, op, 1, loc)])
        ELSE Returned(self)

\* a correction that also records an outcome 0 for the node it corrects
correct_byproduct_store(self, cmd) ==
    LET loc == IndexOf(self.node_index, cmd[2])
        op == IF cmd[1] = "X" THEN OpsX ELSE OpsZ
        s1 == [self EXCEPT !.results = DictSet(self.results, cmd[2], 0)]
    IN  IF ~HasKeys(self.results, cmd[3]) THEN Raised(self, "KeyError")
        ELSE IF Signal(self.results, cmd[3]) % 2 = 1
        THEN IF loc < 0 THEN Raised(self, "ValueError")
             ELSE IF loc >= qubit_dim(self.sv) THEN Raised(self, "QiskitError")
             ELSE Returned([s1 EXCEPT !.sv = Evolve1(self.sv, op, 1, loc)])
        ELSE Returned(s1)

\* cmd = <<"X" or "Z", node, domain>>
correct_byproduct(self, cmd) ==
    LET loc == IndexOf(self.node_index, cmd[2])
        op == IF cmd[1] = "X" THEN OpsX ELSE OpsZ
    IN  IF ~HasKeys(self.results, cmd[3]) THEN Raised(self, "KeyError")
        ELSE IF Signal(self.results, cmd[3]) % 2 = 1
        THEN IF loc < 0 THEN Raised(self, "ValueError")
             ELSE IF loc >= qubit_dim(self.sv) THEN Raised(self, "QiskitError")
             ELSE Returned([self EXCEPT !.sv = Evolve1(self.sv, op, 1, loc)])
        ELSE Returned(self)

\* the loop of run() without its else branch: an unknown tag is skipped
dispatch_skip_unknown(self, cmd, result) ==
    CASE cmd[1] = "N" -> add_nodes(self, <<cmd[2]>>)
      [] cmd[1] = "E" -> entangle_nodes(self, cmd[2])
      [] cmd[1] = "M" -> measure(self, cmd, result)
      [] cmd[1] = "X" -> correct_byproduct(self, cmd)
      [] cmd[1] = "Z" -> correct_byproduct(self, cmd)
      [] OTHER -> Returned(self)

\* one iteration of the loop of run()
dispatch(self, cmd, result) ==
    CASE cmd[1] = "N" -> add_nodes(self, <<cmd[2]>>)
      [] cmd[1] = "E" -> entangle_nodes(self, cmd[2])
      [] cmd[1] = "M" -> measure(self, cmd, result)
      [] cmd[1] = "X" -> correct_byproduct(self, cmd)
      [] cmd[1] = "Z" -> correct_byproduct(self, cmd)
      [] OTHER -> Raised(self, "ValueError")

-----------------------------------------------------------------------------
(* Inputs *)

SeqsUpTo(S, n) == UNION {[1 .. k -> S] : k \in 0 .. n}

IsInjective(list) == \A i, j \in 1 .. Len(list) : list[i] = list[j] => i = j

\* pattern.input_nodes: the constructor asserts that it is not empty
InputLists == {l \in SeqsUpTo(Nodes, Cardinality(Nodes)) : l # <<>> /\ IsInjective(l)}

\* measurement angles in units of pi/2: cmd[3] = q / 2
Angles == {0, 1}

\* the domains of at most one node, and those of at most two
Domains(V) == {<<>>} \cup {<<v>> : v \in V}

PairDomains(V) == Domains(V) \cup {<<v, w>> : v \in V, w \in V}

\* the lists of one or two nodes, in ascending order, handed to add_nodes
NodeLists(V) == {<<v>> : v \in V} \cup {l \in V \X V : l[1] <= l[2]}

\* "XZ" is not a plane of meas_op
PlaneInputs == PLANES \cup {"XZ"}

NCmds(V) == {<<"N", v>> : v \in V}

ECmds(V) == {<<"E", e>> : e \in {e \in V \X V : e[1] # e[2]}}

MCmds(V, planes, angles, sdomains, tdomains) ==
    {<<"M", v, p, a, s, t>> : v \in V, p \in planes, a \in angles,
                              s \in sdomains, t \in tdomains}

CCmds(V, domains) == {<<ax, v, d>> : ax \in {"X", "Z"}, v \in V, d \in domains}

\* a command with a tag that run() does not know
BadCmds == {<<"Q", 0>>}

\* the commands of the patterns that are run: their measurements are in the
\* XY plane or in no plane, at angle 0 and with a t_domain only; the other
\* measurement commands are made by direct calls of measure
RunCmds ==
    NCmds(Nodes) \cup ECmds(Nodes)
        \cup MCmds(Nodes, {"XY", "XZ"}, {0}, {<<>>}, Domains(Nodes))
        \cup CCmds(Nodes, Domains(Nodes)) \cup BadCmds

Patterns == [input_nodes : InputLists, seq : SeqsUpTo(RunCmds, MaxSeq)]

BasisZero(k) == [amp |-> [i \in 1 .. Pow2(k) |-> IF i = 1 THEN COne ELSE CZero], den |-> 1]

\* the statevectors handed to set_state
StateInputs == UNION {{BasisZero(k), DivideBySqrtTrace(Ones(k))} : k \in 1 .. 2}

-----------------------------------------------------------------------------
(* The simulator after __init__ *)

\* self.results = pattern.results binds the field to the pattern's own dict
ResultsAliased == TRUE

\* what pattern.results holds after a store through self.results
Visible(old, new) == IF ResultsAliased THEN new ELSE old

\* output nodes that are sorted, as the constructor leaves them
SortedOutput == [nodes |-> <<0>>, sorted |-> TRUE, sort_calls |-> 0]

Constructed ==
    /\ pattern_output = SortedOutput
    /\ sv = EmptyVector
    /\ node_index = <<>>
    /\ results = pattern_results
    /\ pc = "idle"
    /\ ip = 0
    /\ runs = 0
    /\ calls = 0
    /\ last = [call |-> "__init__", cmd |-> <<>>, exc |-> ""]
    /\ executed = <<>>
    /\ hist = [sampled |-> <<>>, first |-> <<>>, owner |-> <<>>, built |-> <<>>]

\* the fields after a call, and the call as the caller saw it
Step(out, call, cmd) ==
    /\ sv' = out.sv
    /\ node_index' = out.node_index
    /\ results' = out.results
    /\ pattern_results' = Visible(pattern_results, out.results)
    /\ last' = [call |-> call, cmd |-> cmd, exc |-> out.exc]

-----------------------------------------------------------------------------
(* run() on a pattern *)

Init == pattern \in Patterns /\ pattern_results = <<>> /\ Constructed

\* owner[k + 1] is the node that the qubit at axis k was created for: AddNode
\* creates a qubit for its node at a new last axis, and a Measure that returns
\* has traced out the axis that it looked up
Owner(owner, cmd, exc) ==
    CASE cmd[1] = "N" -> Append(owner, cmd[2])
      [] cmd[1] = "M" /\ exc = "" ->
            LET loc == IndexOf(node_index, cmd[2])
            IN  SubSeq(owner, 1, loc) \o SubSeq(owner, loc + 2, Len(owner))
      [] OTHER -> owner

\* the calls of meas_op that a command makes: one by a Measure whose domains'
\* outcomes are all recorded once its own outcome is stored, none otherwise
Built(cmd, result) ==
    LET res == DictSet(results, cmd[2], result)
    IN  IF cmd[1] = "M" /\ HasKeys(res, cmd[5]) /\ HasKeys(res, cmd[6])
        THEN <<meas_op_args(res, cmd, result)>> ELSE <<>>

\* how a call of run() has ended: the outcomes that np.random.choice gave it,
\* the command it stopped at and the simulator's fields
Ended ==
    [sampled |-> hist.sampled, pc |-> pc, ip |-> ip,
     sv |-> sv, node_index |-> node_index, results |-> results]

\* run(): self.initialize_statevector(), then the loop
RunStart ==
    /\ pc \in {"idle", "done", "failed"}
    /\ runs < MaxRuns
    /\ Step(initialize_statevector(Self, pattern.input_nodes), "initialize_statevector", <<>>)
    /\ runs' = runs + 1
    /\ ip' = 1
    /\ pc' = IF pattern.seq = <<>> THEN "done" ELSE "running"
    /\ executed' = <<>>
    /\ hist' = [sampled |-> <<>>, first |-> IF runs = 1 THEN <<Ended>> ELSE hist.first,
                owner |-> pattern.input_nodes, built |-> <<>>]
    /\ UNCHANGED <<pattern, pattern_output, calls>>

\* the command that the loop of run() executes next
Current == pattern.seq[ip]

\* one iteration of: for cmd in self.pattern.seq
RunStep ==
    /\ pc = "running"
    /\ \E result \in {0, 1} :
          LET cmd == Current
              out == dispatch(Self, cmd, result)
          IN  /\ Step(out, "run", cmd)
              /\ pc' = IF out.exc # "" THEN "failed"
                       ELSE IF ip = Len(pattern.seq) THEN "done" ELSE "running"
              /\ ip' = IF out.exc # "" THEN ip ELSE ip + 1
              /\ executed' = Append(executed, cmd)
              /\ hist' = [hist EXCEPT !.sampled = IF cmd[1] = "M" THEN Append(@, result) ELSE @,
                                      !.owner = Owner(@, cmd, out.exc),
                                      !.built = @ \o Built(cmd, result)]
    /\ UNCHANGED <<pattern, pattern_output, runs, calls>>

Next == RunStart \/ RunStep

Spec == Init /\ [][Next]_vars

-----------------------------------------------------------------------------
(* run() on a pattern whose results mapping may hold outcomes already *)

\* commands that read and write the outcomes of nodes 0 and 1, and read that
\* of a node 2 of an earlier computation
SharedCmds ==
    {<<"N", 1>>, <<"E", <<0, 1>>>>, <<"M", 0, "XY", 0, <<>>, <<>>>>,
     <<"M", 0, "XY", 0, <<>>, <<1>>>>, <<"M", 1, "XY", 0, <<0>>, <<>>>>,
     <<"M", 0, "XY", 1, <<1, 2>>, <<1, 2>>>>,
     <<"X", 0, <<1>>>>, <<"Z", 0, <<1>>>>, <<"Z", 1, <<0, 1>>>>}

\* pattern.results when the simulator is constructed
StoredResults == {<<>>} \cup [{1} -> {0, 1}] \cup [{0, 1} -> {0, 1}] \cup [{1, 2} -> {0, 1}]

InitShared ==
    /\ pattern \in [input_nodes : InputLists, seq : SeqsUpTo(SharedCmds, MaxSeq)]
    /\ pattern_results \in StoredResults
    /\ Constructed

SpecShared == InitShared /\ [][Next]_vars

-----------------------------------------------------------------------------
(* The constructor.  pattern_output holds pattern.output_nodes,            *)
(* pattern.output_sorted and the number of calls of pattern.sort_output(). *)

\* pattern.sort_output()
sort_output(out) == [out EXCEPT !.sorted = TRUE, !.sort_calls = @ + 1]

\* the constructor without its assertion on the output nodes
init_without_output_assert(p, out) ==
    IF Len(p.input_nodes) = 0 THEN [exc |-> "AssertionError", output |-> out]
    ELSE [exc |-> "", output |-> IF out.sorted THEN out ELSE sort_output(out)]

\* the assertions of the constructor and its call of sort_output
__init__(p, out) ==
    IF Len(p.input_nodes) = 0 THEN [exc |-> "AssertionError", output |-> out]
    ELSE IF Len(out.nodes) = 0 THEN [exc |-> "AssertionError", output |-> out]
    ELSE [exc |-> "", output |-> IF out.sorted THEN out ELSE sort_output(out)]

\* node lists of a pattern, the empty one among them
NodeSets == {l \in SeqsUpTo(Nodes, Cardinality(Nodes)) : IsInjective(l)}

\* a pattern before a simulator is constructed on it
InitNew ==
    /\ pattern \in [input_nodes : NodeSets, seq : SeqsUpTo(SharedCmds, MaxSeq)]
    /\ pattern_output \in [nodes : NodeSets, sorted : BOOLEAN, sort_calls : {0}]
    /\ pattern_results = <<>>
    /\ sv = EmptyVector
    /\ node_index = <<>>
    /\ results = <<>>
    /\ pc = "new"
    /\ ip = 0
    /\ runs = 0
    /\ calls = 0
    /\ last = [call |-> "", cmd |-> <<>>, exc |-> ""]
    /\ executed = <<>>
    /\ hist = [sampled |-> <<>>, first |-> <<>>, owner |-> <<>>, built |-> <<>>]

\* PatternSimulator(pattern)
Construct ==
    /\ pc = "new"
    /\ LET r == __init__(pattern, pattern_output)
       IN  /\ pattern_output' = r.output
           /\ pc' = IF r.exc = "" THEN "idle" ELSE "rejected"
           /\ last' = [call |-> "__init__", cmd |-> <<>>, exc |-> r.exc]
    /\ results' = pattern_results
    /\ sv' = EmptyVector
    /\ node_index' = <<>>
    /\ UNCHANGED <<pattern, pattern_results, ip, runs, calls, executed, hist>>

NextNew == Construct \/ RunStart \/ RunStep

SpecNew == InitNew /\ [][NextNew]_vars

-----------------------------------------------------------------------------
(* The public methods called directly, in any order.  A call is two steps: *)
(* Invoke records the method and its arguments in last (exc = "calling"),  *)
(* and the method's own action then runs its body on them.                 *)

InitOps ==
    pattern \in [input_nodes : InputLists, seq : {<<>>}] /\ pattern_results = <<>> /\ Constructed

Calls ==
    {<<"initialize_statevector", <<>>>>}
        \cup {<<"set_state", <<v>>>> : v \in StateInputs}
        \cup {<<"add_nodes", <<l>>>> : l \in NodeLists(CallNodes)}
        \cup {<<"entangle_nodes", c>> : c \in ECmds(CallNodes)}
        \cup {<<"measure", c>> :
                 c \in MCmds(CallNodes, PlaneInputs, Angles, Domains({0}), {<<>>})}
        \cup {<<"correct_byproduct", c>> :
                 c \in CCmds(CallNodes, PairDomains(Nodes))}

Invoke ==
    /\ last.exc # "calling"
    /\ calls < MaxCalls
    /\ calls' = calls + 1
    /\ \E c \in Calls : last' = [call |-> c[1], cmd |-> c[2], exc |-> "calling"]
    /\ UNCHANGED <<pattern, pattern_output, pattern_results, sv, node_index, results, pc, ip, runs, executed, hist>>

Calling(method) == last.exc = "calling" /\ last.call = method

\* the fields after the body has run; last keeps the method and the exception
Return(out) ==
    /\ sv' = out.sv
    /\ node_index' = out.node_index
    /\ results' = out.results
    /\ pattern_results' = Visible(pattern_results, out.results)
    /\ last' = [call |-> last.call, cmd |-> <<>>, exc |-> out.exc]
    /\ UNCHANGED <<pattern, pattern_output, pc, ip, runs, calls, executed, hist>>

\* a call that would let node_index grow beyond MaxIndex is not made
Dropped ==
    /\ last' = [call |-> last.call, cmd |-> <<>>, exc |-> "dropped"]
    /\ UNCHANGED <<pattern, pattern_output, pattern_results, sv, node_index, results, pc, ip, runs, calls, executed, hist>>

Call_initialize_statevector ==
    /\ Calling("initialize_statevector")
    /\ IF Len(node_index) + Len(pattern.input_nodes) <= MaxIndex
       THEN Return(initialize_statevector(Self, pattern.input_nodes))
       ELSE Dropped

Call_set_state ==
    /\ Calling("set_state")
    /\ IF Len(node_index) + qubit_dim(last.cmd[1]) <= MaxIndex
       THEN Return(set_state(Self, pattern.input_nodes, last.cmd[1]))
       ELSE Dropped

Call_add_nodes ==
    /\ Calling("add_nodes")
    /\ IF Len(node_index) + Len(last.cmd[1]) <= MaxIndex
       THEN Return(add_nodes(Self, last.cmd[1]))
       ELSE Dropped

Call_entangle_nodes ==
    /\ Calling("entangle_nodes")
    /\ Return(entangle_nodes(Self, last.cmd[2]))

Call_measure ==
    /\ Calling("measure")
    /\ \E result \in {0, 1} : Return(measure(Self, last.cmd, result))

Call_correct_byproduct ==
    /\ Calling("correct_byproduct")
    /\ Return(correct_byproduct(Self, last.cmd))

NextOps ==
    \/ Invoke
    \/ Call_initialize_statevector
    \/ Call_set_state
    \/ Call_add_nodes
    \/ Call_entangle_nodes
    \/ Call_measure
    \/ Call_correct_byproduct

SpecOps == InitOps /\ [][NextOps]_vars

-----------------------------------------------------------------------------
(* Properties *)

Elems(list) == {list[i] : i \in 1 .. Len(list)}

\* C1: in every state that the public operations reach, node_index is as long
\* as the state has qubits.
C1_IndexLengthIsQubitCount == Len(node_index) = qubit_dim(sv)

\* C2: during run() (here the first run of a simulator) no node identifier is
\* at two positions of node_index.
C2_NodeIndexInjective == runs = 1 => IsInjective(node_index)

\* C3: after initialize_statevector, node_index is the sequence of the pattern's
\* input node identifiers and the state has that many qubits.
C3_InitialIndexIsInputNodes ==
    last.call = "initialize_statevector" =>
        /\ node_index = pattern.input_nodes
        /\ qubit_dim(sv) = Len(pattern.input_nodes)

\* C4: during a run the result store changes only by a Measure that succeeds:
\* an entry appears or changes only for the live node that this step measures
\* and removes from node_index, and no entry disappears.
C4_ResultsWrittenOnlyByMeasured ==
    [][/\ DOMAIN results \subseteq DOMAIN results'
       /\ \A v \in DOMAIN results' :
             (v \notin DOMAIN results \/ results'[v] # results[v]) =>
                 /\ pc = "running"
                 /\ Current[1] = "M"
                 /\ Current[2] = v
                 /\ v \in Elems(node_index)
                 /\ pc' # "failed"
                 /\ Len(node_index') = Len(node_index) - 1]_vars

\* C5: a Measure that succeeds takes exactly one entry, an entry of the measured
\* node, out of node_index, keeps the other entries in their order, and leaves
\* the state with one qubit less.
C5_MeasureRemovesOneEntry ==
    [][(Calling("measure") /\ last'.exc = "") =>
          /\ \E p \in 1 .. Len(node_index) :
                /\ node_index[p] = last.cmd[2]
                /\ node_index' = SubSeq(node_index, 1, p - 1)
                                    \o SubSeq(node_index, p + 1, Len(node_index))
          /\ qubit_dim(sv') = qubit_dim(sv) - 1]_vars

\* a successful measure of node 1 out of [0, 1, 2] has left [0, 2]
C5_Witness ==
    /\ last.call = "measure"
    /\ last.exc = ""
    /\ node_index = <<0, 2>>
    /\ DOMAIN results = {1}
    /\ qubit_dim(sv) = 2

RECURSIVE CountN(_)
CountN(seq) ==
    IF seq = <<>> THEN 0 ELSE (IF Head(seq)[1] = "N" THEN 1 ELSE 0) + CountN(Tail(seq))

\* AddNode commands followed only by Entangle commands
IsNThenE(seq) ==
    /\ \A i \in 1 .. Len(seq) : seq[i][1] \in {"N", "E"}
    /\ \A i, j \in 1 .. Len(seq) : (seq[i][1] = "E" /\ seq[j][1] = "N") => j < i

\* C6 as stated: a run of n AddNode commands followed only by Entangle commands
\* ends with exactly n live nodes and squared norm 1.
C6_ExactlyNLiveNodes ==
    (IsNThenE(pattern.seq) /\ pattern.seq # <<>> /\ pc \in {"done", "failed"}) =>
        /\ Len(node_index) = CountN(pattern.seq)
        /\ qubit_dim(sv) = CountN(pattern.seq)
        /\ TraceIsOne(sv)

\* C6 amended: such a run ends (completed, or failed at an Entangle) with a state
\* of exactly n + m qubits, m the number of input nodes, and squared norm 1;
\* node_index has n + m entries for each run made on the simulator so far.
C6_InputsPlusNQubits ==
    (IsNThenE(pattern.seq) /\ pc \in {"done", "failed"}) =>
        /\ qubit_dim(sv) = CountN(pattern.seq) + Len(pattern.input_nodes)
        /\ Len(node_index) = runs * (CountN(pattern.seq) + Len(pattern.input_nodes))
        /\ TraceIsOne(sv)

\* a run of an AddNode and an Entangle on the two live nodes has completed
C6_Witness ==
    /\ IsNThenE(pattern.seq)
    /\ CountN(pattern.seq) = 1
    /\ Len(pattern.seq) = 2
    /\ pc = "done"
    /\ last.exc = ""
    /\ IsInjective(node_index)

\* C7: the run of the single-qubit identity pattern (input node 0, the command
\* AddNode(0)) ends with one live qubit, node 0, in the initial superposition
\* state, and with an empty result store.
C7_IdentityPattern ==
    (pattern = [input_nodes |-> <<0>>, seq |-> << <<"N", 0>> >>] /\ runs = 1 /\ pc = "done") =>
        /\ node_index = <<0>>
        /\ sv = [amp |-> <<COne, COne>>, den |-> 2]
        /\ results = <<>>

\* the vector v with Pauli X or Z applied at axis loc, amplitude by amplitude
PauliAt(v, axis, loc) ==
    [amp |-> [i \in 1 .. Len(v.amp) |->
                IF axis = "X"
                THEN v.amp[(IF Bit(i - 1, loc) = 0 THEN i + Pow2(loc) ELSE i - Pow2(loc))]
                ELSE IF Bit(i - 1, loc) = 1 THEN <<-v.amp[i][1], -v.amp[i][2]>> ELSE v.amp[i]],
     den |-> v.den]

\* C8: a Correct command that returns has applied its Pauli operator to the
\* named node when the sum mod 2 of the outcomes of its domain is 1, and has
\* changed nothing when it is 0; node_index and the result store are unchanged.
C8_CorrectIffOddParity ==
    [][(Calling("correct_byproduct") /\ last'.exc = "") =>
          /\ HasKeys(results, last.cmd[3])
          /\ node_index' = node_index
          /\ results' = results
          /\ IF Signal(results, last.cmd[3]) % 2 = 1
             THEN /\ last.cmd[2] \in Elems(node_index)
                  /\ sv' = PauliAt(sv, last.cmd[1], IndexOf(node_index, last.cmd[2]))
             ELSE sv' = sv]_vars

\* a Z correction has turned the qubit of node 0 from |+> into |->
C8_Witness ==
    /\ last.call = "correct_byproduct"
    /\ last.exc = ""
    /\ node_index = <<0>>
    /\ sv = [amp |-> <<COne, CInt(-1)>>, den |-> 2]

\* the command names a node that is not in node_index
Dangling(cmd) ==
    CASE cmd[1] = "E" -> cmd[2][1] \notin Elems(node_index) \/ cmd[2][2] \notin Elems(node_index)
      [] cmd[1] \in {"M", "X", "Z"} -> cmd[2] \notin Elems(node_index)
      [] OTHER -> FALSE

\* C9 as stated: every Entangle, Measure or Correct command that names a node
\* not in node_index fails, Correct whatever the parity of its domain.
C9_DanglingAlwaysFails ==
    [][(pc = "running" /\ Dangling(Current)) => pc' = "failed"]_vars

\* C9 amended: an Entangle or Measure command that names a node not in
\* node_index fails; a Correct command that names one fails when an outcome of
\* its domain is missing or the parity of its domain is odd, and returns having
\* changed nothing when the parity is even.
C9_DanglingFailsUnlessEvenCorrect ==
    [][(pc = "running" /\ Dangling(Current)) =>
          IF /\ Current[1] \in {"X", "Z"}
             /\ HasKeys(results, Current[3])
             /\ Signal(results, Current[3]) % 2 = 0
          THEN /\ pc' # "failed"
               /\ last'.exc = ""
               /\ <<sv, node_index, results>>' = <<sv, node_index, results>>
          ELSE /\ pc' = "failed"
               /\ last'.exc # ""]_vars

\* a Correct command of odd parity has failed on a node that is not live
C9_Witness ==
    /\ pc = "failed"
    /\ last.cmd[1] \in {"X", "Z"}
    /\ last.exc = "ValueError"
    /\ last.cmd[2] \notin Elems(node_index)
    /\ Signal(results, last.cmd[3]) % 2 = 1

\* C10: a Measure command with an invalid plane fails and leaves the state
\* vector, node_index and the result store as they were before the call.
C10_InvalidPlaneChangesNothing ==
    [][(pc = "running" /\ Current[1] = "M" /\ Current[3] \notin PLANES) =>
          /\ pc' = "failed"
          /\ <<sv, node_index, results>>' = <<sv, node_index, results>>]_vars

\* the tags that run() knows
TAGS == {"N", "E", "M", "X", "Z"}

\* C11: a command with an unknown tag fails the run at that command, with the
\* simulator's fields unchanged; the commands before it were executed once
\* each in sequence order, and after a failure no command of that run is
\* executed: the next step is a new call of run().
C11_UnknownTagIsFatal ==
    [][/\ (pc = "running" /\ Current[1] \notin TAGS) =>
             /\ pc' = "failed"
             /\ last'.exc = "ValueError"
             /\ executed = SubSeq(pattern.seq, 1, ip - 1)
             /\ executed' = SubSeq(pattern.seq, 1, ip)
             /\ <<sv, node_index, results>>' = <<sv, node_index, results>>
       /\ pc = "failed" => (runs' = runs + 1 /\ executed' = <<>>)]_vars

\* a run has failed at an unknown tag that was its second command
C11_Witness ==
    /\ pc = "failed"
    /\ last.exc = "ValueError"
    /\ last.cmd[1] \notin TAGS
    /\ Len(executed) = 2
    /\ executed = pattern.seq

\* C12: a run of the pattern that is given the same outcomes as the first run
\* ends as the first run did: completed or failed at the same command, with the
\* same state vector, node_index and result store.
C12_SameOutcomesSameRun ==
    (pc \in {"done", "failed"} /\ hist.first # <<>> /\ hist.sampled = hist.first[1].sampled) =>
        Ended = hist.first[1]

\* a Measure command that is well formed in the current state: its node is
\* live, its plane is one of meas_op, the outcomes of its domains are recorded
\* (its own outcome is recorded before they are read), and node_index has one
\* entry for each qubit of a normalized state
WellFormedMeasure(cmd) ==
    /\ cmd[1] = "M"
    /\ cmd[3] \in PLANES
    /\ cmd[2] \in Elems(node_index)
    /\ Elems(cmd[5]) \cup Elems(cmd[6]) \subseteq DOMAIN results \cup {cmd[2]}
    /\ IsInjective(node_index)
    /\ Len(node_index) = qubit_dim(sv)
    /\ TraceIsOne(sv)

\* C13: a Measure of a live node on a normalized state of k qubits leaves, for
\* either sampled outcome, a state of k - 1 qubits and squared norm 1.
C13_MeasureLeavesNormalizedState ==
    [][(pc = "running" /\ WellFormedMeasure(Current)) =>
          /\ qubit_dim(sv') = qubit_dim(sv) - 1
          /\ TraceIsOne(sv')]_vars

\* a command that is malformed in the current state: its tag is unknown, it
\* names a node that is not live, its plane is none of meas_op, or an outcome
\* of its domains is not recorded
Malformed(cmd) ==
    \/ cmd[1] \notin TAGS
    \/ Dangling(cmd)
    \/ cmd[1] = "M" /\ cmd[3] \notin PLANES
    \/ cmd[1] = "M" /\ ~(Elems(cmd[5]) \cup Elems(cmd[6]) \subseteq DOMAIN results \cup {cmd[2]})
    \/ cmd[1] \in {"X", "Z"} /\ ~(Elems(cmd[3]) \subseteq DOMAIN results)

\* C14: a run that completes has executed every command once, in sequence
\* order; a run fails only at a malformed command (here: from a state in which
\* node_index has one entry per qubit and no node twice), having executed the
\* commands up to it in order; after a failure no command of that run is
\* executed.
C14_CompletesOrFailsAtMalformed ==
    [][/\ (pc = "running" /\ pc' = "done") => executed' = pattern.seq
       /\ (pc = "running" /\ pc' = "failed") => executed' = SubSeq(pattern.seq, 1, ip)
       /\ (/\ pc = "running" /\ pc' = "failed"
           /\ IsInjective(node_index) /\ Len(node_index) = qubit_dim(sv)) => Malformed(Current)
       /\ pc = "failed" => runs' = runs + 1]_vars

\* C15: the simulator's result store and the pattern's results mapping have the
\* same contents in every state: the outcomes that Measure writes are in
\* pattern.results, and the run reads the outcomes that pattern.results held
\* before it.
C15_ResultsArePatternResults == results = pattern_results

\* a completed run has measured node 0 with a t_domain whose outcome was in
\* pattern.results before the run, and its own outcome is in pattern.results
C15_Witness ==
    /\ pc = "done"
    /\ executed = << <<"M", 0, "XY", 0, <<>>, <<1>>>> >>
    /\ DOMAIN pattern_results = {0, 1}
    /\ pattern_results[0] = hist.sampled[1]
    /\ node_index = <<>>

\* C16: entangle_nodes on two distinct live nodes ends as entangle_nodes on the
\* swapped pair would, and leaves node_index and the result store alone; when it
\* returns it has changed nothing on the other axes: every amplitude keeps its
\* modulus, and two amplitudes whose basis states agree at the two nodes' axes
\* keep their ratio.
C16_EntangleIsSymmetric ==
    [][(/\ Calling("entangle_nodes")
        /\ last.cmd[2][1] # last.cmd[2][2]
        /\ {last.cmd[2][1], last.cmd[2][2]} \subseteq Elems(node_index)) =>
          LET a == last.cmd[2][1]
              b == last.cmd[2][2]
              la == IndexOf(node_index, a)
              lb == IndexOf(node_index, b)
              swapped == entangle_nodes(Self, <<b, a>>)
          IN  /\ sv' = swapped.sv
              /\ last'.exc = swapped.exc
              /\ node_index' = node_index
              /\ results' = results
              /\ last'.exc = "" =>
                    /\ sv'.den = sv.den
                    /\ \A i \in 1 .. Len(sv.amp) : CAbs2(sv'.amp[i]) = CAbs2(sv.amp[i])
                    /\ \A i, j \in 1 .. Len(sv.amp) :
                          (/\ Bit(i - 1, la) = Bit(j - 1, la)
                           /\ Bit(i - 1, lb) = Bit(j - 1, lb)) =>
                              CMul(sv'.amp[i], sv.amp[j]) = CMul(sv.amp[i], sv'.amp[j])]_vars

\* entangle_nodes has returned on a state of three live nodes and changed it
C16_Witness ==
    /\ last.call = "entangle_nodes"
    /\ last.exc = ""
    /\ Len(node_index) = 3
    /\ IsInjective(node_index)
    /\ qubit_dim(sv) = 3
    /\ \E i \in 1 .. Len(sv.amp) : sv.amp[i] = CInt(-1)

\* C17: the constructor fails an assertion, and no simulator exists, when the
\* pattern's input nodes or output nodes are empty; otherwise it creates the
\* simulator, and it has called sort_output() once when the outputs were not
\* sorted and not at all when they were.
C17_ConstructorChecksPattern ==
    [][pc = "new" =>
          IF pattern.input_nodes = <<>> \/ pattern_output.nodes = <<>>
          THEN /\ pc' = "rejected"
               /\ last'.exc = "AssertionError"
          ELSE /\ pc' = "idle"
               /\ last'.exc = ""
               /\ pattern_output'.nodes = pattern_output.nodes
               /\ pattern_output'.sort_calls =
                      pattern_output.sort_calls + (IF pattern_output.sorted THEN 0 ELSE 1)]_vars

\* a simulator has been constructed on a pattern whose outputs were not sorted
C17_Witness ==
    /\ pc = "idle"
    /\ last = [call |-> "__init__", cmd |-> <<>>, exc |-> ""]
    /\ pattern_output.sort_calls = 1
    /\ pattern_output.nodes # <<>>
    /\ pattern.input_nodes # <<>>

\* the axis that cmd looks up for node v holds the qubit created for v
ActsOnOwn(v) ==
    LET loc == IndexOf(node_index, v)
    IN  loc >= 0 /\ loc < Len(hist.owner) /\ hist.owner[loc + 1] = v

\* C18: every Entangle, Measure or Correct command that returns having looked
\* up a node has acted on the axis that holds the qubit created for that node.
C18_ActsOnTheNodesOwnQubit ==
    [][(pc = "running" /\ pc' # "failed") =>
          CASE Current[1] = "E" -> ActsOnOwn(Current[2][1]) /\ ActsOnOwn(Current[2][2])
            [] Current[1] = "M" -> ActsOnOwn(Current[2])
            [] Current[1] \in {"X", "Z"} ->
                  (Signal(results, Current[3]) % 2 = 1) => ActsOnOwn(Current[2])
            [] OTHER -> TRUE]_vars

\* C19: a Measure command whose domains' outcomes are recorded calls meas_op
\* exactly once, with the angle angle * pi * (-1)^S + pi * T (here in units of
\* pi/2), S and T the sums of the outcomes that the result store holds for
\* s_domain and t_domain when the command reads them, with Clifford index 0,
\* the command's plane and the outcome recorded for the measured node; no other
\* command calls meas_op.
C19_EffectiveAngle ==
    [][pc = "running" =>
          IF Current[1] = "M" /\ Elems(Current[5]) \cup Elems(Current[6]) \subseteq DOMAIN results'
          THEN LET S == SumSeq([i \in 1 .. Len(Current[5]) |-> results'[Current[5][i]]])
                   T == SumSeq([i \in 1 .. Len(Current[6]) |-> results'[Current[6][i]]])
               IN  hist'.built = Append(hist.built,
                       [angle |-> Current[4] * (IF S % 2 = 0 THEN 1 ELSE -1) + 2 * T,
                        vop |-> 0, plane |-> Current[3], choice |-> results'[Current[2]]])
          ELSE hist'.built = hist.built]_vars

\* a Measure has returned whose t_domain held two outcomes 1: T = 2, S = 2
C19_Witness ==
    /\ pc = "done"
    /\ last.exc = ""
    /\ last.cmd = <<"M", 0, "XY", 1, <<1, 2>>, <<1, 2>>>>
    /\ results[1] = 1
    /\ results[2] = 1
    /\ hist.built # <<>>
    /\ hist.built[Len(hist.built)].angle = 5

\* C20: the commands N, E, X and Z leave the result store as it is, and E, X
\* and Z leave node_index as it is; the result store changes only in a Measure
\* command, and node_index changes only in the initialization of run(), in an
\* N command or in a Measure command.
C20_Frame ==
    [][/\ (pc = "running" /\ Current[1] \in {"N", "E", "X", "Z"}) => results' = results
       /\ (pc = "running" /\ Current[1] \in {"E", "X", "Z"}) => node_index' = node_index
       /\ results' # results => (pc = "running" /\ Current[1] = "M")
       /\ node_index' # node_index => (pc # "running" \/ Current[1] \in {"N", "M"})]_vars

\* a correction was applied after a measurement had recorded an outcome, with
\* a node still live
C20_Witness ==
    /\ pc = "done"
    /\ last.exc = ""
    /\ Len(executed) = 2
    /\ executed[1][1] = "M"
    /\ executed[2][1] \in {"X", "Z"}
    /\ last.cmd = executed[2]
    /\ results # <<>>
    /\ Signal(results, last.cmd[3]) % 2 = 1
    /\ node_index # <<>>

====
